---------------------------- MODULE Spec2Model ----------------------------
(***************************************************************************)
(* Model of the "on this day in history" generation pipeline.              *)
(*                                                                         *)
(* The repository holds three copies of the script:                        *)
(*   "scheduled"  src/unnamed/part_000            (date argument, cron)    *)
(*   "daily"      src/generate-events.js 1-312    (one file per day)       *)
(*   "aggregate"  src/generate-events.js 313-617  (events.json by MM-DD)   *)
(* The variable `variant` says which copy a behaviour runs.                *)
(*                                                                         *)
(* Strings are sequences of one-character strings, so that split, trim and *)
(* parseInt are computed as the code computes them.  The module is ASCII   *)
(* only: every CJK character of the source is written as one character     *)
(* token holding its pinyin ("zheng" is one character).                    *)
(***************************************************************************)
EXTENDS Integers, Sequences, FiniteSets, TLC

VARIABLES
    variant,          \* which copy of the script runs
    pc,               \* position of the process and of its invocation
    nKeys,            \* apiKeys.length of the process
    currentKeyIndex,  \* the rotation cursor
    procYear,         \* "daily": `year`, read once when the script starts
    dateStr,          \* day key of the invocation
    langIdx,          \* index in LANGUAGES of the language being generated
    retries,          \* `retries` of the language being generated
    results,          \* `results`: language -> raw text ("" while not set)
    returned,         \* what generateAndUpdateEvents returned
    eventsFiles,      \* day key -> the day's event output
    eventsJsonExists, \* "aggregate": whether events.json exists
    cacheFiles,       \* day key -> cache file
    lastUpdated,      \* last-updated.txt
    now,              \* the wall clock, in days
    clockYear,        \* new Date().getFullYear()
    attemptLog,       \* history: the generation attempts of the invocation
    atStart,          \* history: the cache file the invocation found
    hist,             \* history: how the invocation just before this ended
    fnIn,             \* arguments of a function called on its own
    fnOut,            \* its result, and its argument as it is after the call
    publish,          \* part_000: generateAndSync, its publish step and result
    abandoned,        \* languages with a model call left in flight by a timeout
    twin              \* two processes run side by side (see SpecTwo)

procVars == << nKeys, currentKeyIndex, procYear >>
invVars == << dateStr, langIdx, retries, results, returned, attemptLog, atStart >>
storeVars == << eventsFiles, eventsJsonExists, cacheFiles, lastUpdated >>
clockVars == << now, clockYear >>
fnVars == << fnIn, fnOut >>

extVars == << publish, abandoned, twin >>

vars == << variant, pc, procVars, invVars, storeVars, clockVars, hist, fnVars,
           extVars >>

-----------------------------------------------------------------------------
(* Strings *)

WhiteSpace == {" ", "\t", "\n", "\r"}
Digits == {"0", "1", "2", "3", "4", "5", "6", "7", "8", "9"}

DigitValue(c) ==
    CASE c = "0" -> 0 [] c = "1" -> 1 [] c = "2" -> 2 [] c = "3" -> 3
      [] c = "4" -> 4 [] c = "5" -> 5 [] c = "6" -> 6 [] c = "7" -> 7
      [] c = "8" -> 8 [] c = "9" -> 9

RECURSIVE TrimStart(_)
TrimStart(s) ==
    IF s # << >> /\ Head(s) \in WhiteSpace THEN TrimStart(Tail(s)) ELSE s

RECURSIVE TrimEnd(_)
TrimEnd(s) ==
    IF s # << >> /\ s[Len(s)] \in WhiteSpace
    THEN TrimEnd(SubSeq(s, 1, Len(s) - 1))
    ELSE s

\* String.prototype.trim
Trim(s) == TrimEnd(TrimStart(s))

\* String.prototype.split(sep) for a one-character separator: always at
\* least one piece; the empty string splits into one empty piece.
\* (The pieces from position i on, `cur` being the piece begun before i; the
\* recursion goes from separator to separator.)
RECURSIVE SplitFrom(_, _, _, _)
SplitFrom(s, sep, i, cur) ==
    LET seps == {j \in i..Len(s) : s[j] = sep}
    IN  IF seps = {} THEN << cur \o SubSeq(s, i, Len(s)) >>
        ELSE LET j == CHOOSE x \in seps : \A y \in seps : x <= y
             IN  << cur \o SubSeq(s, i, j - 1) >>
                 \o SplitFrom(s, sep, j + 1, << >>)

Split(s, sep) == SplitFrom(s, sep, 1, << >>)

\* Array.prototype.join for strings
RECURSIVE Join(_, _)
Join(parts, sep) ==
    IF parts = << >> THEN << >>
    ELSE IF Len(parts) = 1 THEN parts[1]
    ELSE parts[1] \o << sep >> \o Join(Tail(parts), sep)

(* JavaScript numbers as produced by parseInt: an integer or NaN *)
NaN == [isNaN |-> TRUE, n |-> 0]
Num(n) == [isNaN |-> FALSE, n |-> n]
isNaN(x) == x.isNaN
\* x < y, x > y, x <= y, x >= y of JavaScript: false when a side is NaN
JsLt(x, y) == ~isNaN(x) /\ ~isNaN(y) /\ x.n < y.n
JsGt(x, y) == ~isNaN(x) /\ ~isNaN(y) /\ x.n > y.n
JsLe(x, y) == ~isNaN(x) /\ ~isNaN(y) /\ x.n <= y.n
JsGe(x, y) == ~isNaN(x) /\ ~isNaN(y) /\ x.n >= y.n

RECURSIVE DigitsValue(_, _)
DigitsValue(s, acc) ==
    IF s # << >> /\ Head(s) \in Digits
    THEN DigitsValue(Tail(s), 10 * acc + DigitValue(Head(s)))
    ELSE acc

\* parseInt(s, 10): skips leading white space, takes an optional sign and
\* the longest run of digits; NaN when there is no digit.
parseInt(s) ==
    LET t == TrimStart(s)
        neg == t # << >> /\ Head(t) = "-"
        u == IF t # << >> /\ Head(t) \in {"-", "+"} THEN Tail(t) ELSE t
    IN  IF u = << >> \/ Head(u) \notin Digits THEN NaN
        ELSE Num(IF neg THEN 0 - DigitsValue(u, 0) ELSE DigitsValue(u, 0))

-----------------------------------------------------------------------------
(* Configuration *)

LANGUAGES == << "zh", "en" >>

\* The category words, as strings.  The zh words are two CJK characters each.
Zh_Politics == << "zheng", "zhi" >>
Zh_Economy == << "jing", "ji" >>
Zh_Technology == << "ke", "ji" >>
Zh_Culture == << "wen", "hua" >>
Zh_Sports == << "ti", "yu" >>
Zh_Disaster == << "zai", "hai" >>
Zh_Other == << "qi", "ta" >>
En_Politics == << "P", "o", "l", "i", "t", "i", "c", "s" >>
En_Economy == << "E", "c", "o", "n", "o", "m", "y" >>
En_Technology == << "T", "e", "c", "h", "n", "o", "l", "o", "g", "y" >>
En_Culture == << "C", "u", "l", "t", "u", "r", "e" >>
En_Sports == << "S", "p", "o", "r", "t", "s" >>
En_Disaster == << "D", "i", "s", "a", "s", "t", "e", "r" >>
En_Other == << "O", "t", "h", "e", "r" >>

CATEGORIES ==
    [zh |-> {Zh_Politics, Zh_Economy, Zh_Technology, Zh_Culture, Zh_Sports, Zh_Disaster, Zh_Other},
     en |-> {En_Politics, En_Economy, En_Technology, En_Culture, En_Sports, En_Disaster, En_Other}]

-----------------------------------------------------------------------------
(* Response Parser *)

HexDigits == Digits \cup {"a", "b", "c", "d", "e", "f", "A", "B", "C", "D", "E", "F"}

HexDigitValue(c) ==
    IF c \in Digits THEN DigitValue(c)
    ELSE CASE c \in {"a", "A"} -> 10 [] c \in {"b", "B"} -> 11
           [] c \in {"c", "C"} -> 12 [] c \in {"d", "D"} -> 13
           [] c \in {"e", "E"} -> 14 [] c \in {"f", "F"} -> 15

RECURSIVE HexDigitsValue(_, _)
HexDigitsValue(s, acc) ==
    IF s # << >> /\ Head(s) \in HexDigits
    THEN HexDigitsValue(Tail(s), 16 * acc + HexDigitValue(Head(s)))
    ELSE acc

\* parseInt(s) without a radix ("aggregate"): as parseInt(s, 10), except
\* that a 0x / 0X prefix selects base 16.
parseIntNoRadix(s) ==
    LET t == TrimStart(s)
        neg == t # << >> /\ Head(t) = "-"
        u == IF t # << >> /\ Head(t) \in {"-", "+"} THEN Tail(t) ELSE t
        hex == Len(u) >= 2 /\ u[1] = "0" /\ u[2] \in {"x", "X"}
        h == IF hex THEN SubSeq(u, 3, Len(u)) ELSE << >>
    IN  IF hex
        THEN IF h = << >> \/ Head(h) \notin HexDigits THEN NaN
             ELSE Num(IF neg THEN 0 - HexDigitsValue(h, 0)
                      ELSE HexDigitsValue(h, 0))
        ELSE parseInt(s)

\* One line of parseEvents, part_000 and "daily": the events it pushes.
parseLine(line) ==
    LET trimmedLine == Trim(line)
        parts == Split(trimmedLine, "|")
    IN  IF trimmedLine = << >> THEN << >>
        ELSE IF Len(parts) # 3 THEN << >>
        ELSE << [year |-> parseInt(Trim(parts[1])),
                 title |-> Trim(parts[2]),
                 category |-> Trim(parts[3])] >>

\* One line of parseEvents, "aggregate": destructures the first three
\* pieces and wants each of them non-empty.
parseLineAggregate(line) ==
    LET parts == Split(line, "|")
        item(i) == IF i <= Len(parts) THEN Trim(parts[i]) ELSE << >>
    IN  IF Trim(line) = << >> THEN << >>
        ELSE IF item(1) # << >> /\ item(2) # << >> /\ item(3) # << >>
        THEN << [year |-> parseIntNoRadix(item(1)),
                 description |-> item(2),
                 category |-> item(3)] >>
        ELSE << >>

RECURSIVE parseLines(_, _)
parseLines(v, lines) ==
    IF lines = << >> THEN << >>
    ELSE (IF v = "aggregate" THEN parseLineAggregate(Head(lines))
          ELSE parseLine(Head(lines)))
         \o parseLines(v, Tail(lines))

parseEvents(v, aiResponse) == parseLines(v, Split(aiResponse, "\n"))

-----------------------------------------------------------------------------
(* Validator *)

YearsBack == 50
AggregateMinYear == 1970

\* the fallback term: lang === 'zh' ? qita : 'Other'
FallbackCategory(lang) == IF lang = "zh" THEN Zh_Other ELSE En_Other

\* Faulty variant: the test `event.year > currentYear` is missing
InvalidYear_NoUpperBound(year, currentYear) ==
    \/ isNaN(year)
    \/ JsLt(year, Num(currentYear - YearsBack))

\* Faulty variant: the test `event.year < currentYear - 50` is missing
InvalidYear_NoLowerBound(year, currentYear) ==
    \/ isNaN(year)
    \/ JsGt(year, Num(currentYear))

\* The year test of validateEvents, part_000 and "daily": the event is
\* dropped when it is true.
InvalidYear(year, currentYear) ==
    \/ isNaN(year)
    \/ JsLt(year, Num(currentYear - YearsBack))
    \/ JsGt(year, Num(currentYear))

\* isValidYear of validateEvents, "aggregate"
isValidYear(year, currentYear) ==
    JsGe(year, Num(AggregateMinYear)) /\ JsLe(year, Num(currentYear))

\* The category after the category check of part_000 and "daily"
RepairedCategory(category, lang) ==
    IF category \notin CATEGORIES[lang] THEN FallbackCategory(lang)
    ELSE category

\* Faulty variant: the title is not trimmed before it is compared with ''
EmptyTitle_NoTrim(title) == title = << >>

\* !event.title || event.title.trim() === ''
EmptyTitle(title) == title = << >> \/ Trim(title) = << >>

\* What validateEvents pushes for one event, part_000 and "daily"
validateEvent(event, lang, currentYear) ==
    IF InvalidYear(event.year, currentYear) THEN << >>
    ELSE IF EmptyTitle(event.title) THEN << >>
    ELSE << [event EXCEPT !.category = RepairedCategory(@, lang)] >>

\* The filter of validateEvents, "aggregate"
validateEventAggregate(event, lang, currentYear) ==
    IF /\ isValidYear(event.year, currentYear)
       /\ event.category \in CATEGORIES[lang]
    THEN << event >>
    ELSE << >>

\* Faulty variant: the loop over the events starts at the second one
RECURSIVE validateEvents_From(_, _, _, _, _)
validateEvents_From(v, events, lang, currentYear, i) ==
    IF i > Len(events) THEN << >>
    ELSE (IF v = "aggregate"
          THEN validateEventAggregate(events[i], lang, currentYear)
          ELSE validateEvent(events[i], lang, currentYear))
         \o validateEvents_From(v, events, lang, currentYear, i + 1)
validateEvents_SkipsFirst(v, events, lang, currentYear) ==
    validateEvents_From(v, events, lang, currentYear, 2)

RECURSIVE validateEvents(_, _, _, _)
validateEvents(v, events, lang, currentYear) ==
    IF events = << >> THEN << >>
    ELSE (IF v = "aggregate"
          THEN validateEventAggregate(Head(events), lang, currentYear)
          ELSE validateEvent(Head(events), lang, currentYear))
         \o validateEvents(v, Tail(events), lang, currentYear)

\* An event object of the argument array once validateEvents has visited
\* it.  In part_000 and "daily" the category check assigns to the event
\* itself (`event.category = ...`, part_000:305-308), after the year test
\* and before the title test; "aggregate" only reads the event.
visitedEvent(v, event, lang, currentYear) ==
    IF v = "aggregate" THEN event
    ELSE IF InvalidYear(event.year, currentYear) THEN event
    ELSE [event EXCEPT !.category = RepairedCategory(@, lang)]

\* The argument array of validateEvents as the caller sees it after the call
eventsAfterValidate(v, events, lang, currentYear) ==
    [j \in 1..Len(events) |-> visitedEvent(v, events[j], lang, currentYear)]

-----------------------------------------------------------------------------
(* Storage: the cache directory, the event output, JSON *)

\* the day keys of the store, and the ones runs are started for
DayKeys == {"d1", "d2"}
RunDays == {"d1"}

\* A bundle object: `keys` are the property names it has, ev[l] the events
\* under l (empty where l is no property).
NoEvents == [zh |-> << >>, en |-> << >>]
EmptyObject == [keys |-> {}, ev |-> NoEvents]
\* Faulty variant: a language without events is left out of the object
Bundle_OmitsEmpty(zhEvents, enEvents) ==
    [keys |-> {l \in {"zh", "en"} :
                 (IF l = "zh" THEN zhEvents ELSE enEvents) # << >>},
     ev |-> [zh |-> zhEvents, en |-> enEvents]]

Bundle(zhEvents, enEvents) ==
    [keys |-> {"zh", "en"}, ev |-> [zh |-> zhEvents, en |-> enEvents]]

\* JSON has no NaN: JSON.stringify writes it as null.
JsonNull == [isNaN |-> FALSE, n |-> 0, isNull |-> TRUE]
JsonEvent(e) == IF isNaN(e.year) THEN [e EXCEPT !.year = JsonNull] ELSE e
JsonEvents(es) == [i \in 1..Len(es) |-> JsonEvent(es[i])]
\* JSON.parse(JSON.stringify(obj, null, 2))
JsonRoundTrip(obj) ==
    [keys |-> obj.keys,
     ev |-> [l \in {"zh", "en"} |-> JsonEvents(obj.ev[l])]]

\* A file: whether it exists, whether its text parses as JSON, and the
\* value it parses to.
NoFile == [exists |-> FALSE, parses |-> FALSE, value |-> EmptyObject]
JsonFile(obj) ==
    [exists |-> TRUE, parses |-> TRUE, value |-> JsonRoundTrip(obj)]
CorruptFile == [exists |-> TRUE, parses |-> FALSE, value |-> EmptyObject]

\* A cache file with the mtime (days) the file system keeps for it.
NoCache == [file |-> NoFile, mtime |-> 0]

TTL_DAYS == 30

\* Faulty variant: daysDiff <= 30
isCacheValid_Inclusive(cacheFile, t) ==
    IF ~cacheFile.file.exists THEN FALSE
    ELSE t - cacheFile.mtime <= TTL_DAYS

\* Faulty variant: daysDiff > 30
isCacheValid_Inverted(cacheFile, t) ==
    IF ~cacheFile.file.exists THEN FALSE
    ELSE t - cacheFile.mtime > TTL_DAYS

\* isCacheValid of part_000 and "daily": daysDiff < 30
isCacheValid(cacheFile, t) ==
    IF ~cacheFile.file.exists THEN FALSE
    ELSE t - cacheFile.mtime < TTL_DAYS

\* isCacheValid of "aggregate": stats.mtime > thirtyDaysAgo, where
\* thirtyDaysAgo is now with its calendar date moved back 30 days (the
\* clock of the model has no daylight-saving shifts: 30 dates are 30 days)
isCacheValidAggregate(cacheFile, t) ==
    IF ~cacheFile.file.exists THEN FALSE
    ELSE cacheFile.mtime > t - TTL_DAYS

CacheValid(v, cacheFile, t) ==
    IF v = "aggregate" THEN isCacheValidAggregate(cacheFile, t)
    ELSE isCacheValid(cacheFile, t)

\* Faulty variant: a file that does not parse is taken for a readable one
CacheReadable_IgnoresParse(cacheFile) == cacheFile.file.exists

\* Faulty variant: the file is read, an empty object is returned
getFromCache_Empty(cacheFile) == EmptyObject

\* getFromCache returns the parsed value, or null when reading or parsing
\* throws; `if (cachedData)` is then false.
CacheReadable(cacheFile) == cacheFile.file.exists /\ cacheFile.file.parses
getFromCache(cacheFile) == cacheFile.file.value

\* Faulty variant: a cache file that is there already is not written again
writeToCache_KeepsExisting(files, key, data, t) ==
    IF files[key].file.exists THEN files
    ELSE [files EXCEPT ![key] = [file |-> JsonFile(data), mtime |-> t]]

\* writeToCache
writeToCache(files, key, data, t) ==
    [files EXCEPT ![key] = [file |-> JsonFile(data), mtime |-> t]]

\* initEventsFile of part_000 and "daily": the day's file is created
\* holding {} when it does not exist.  ("aggregate" creates events.json,
\* which holds no day entry then.)
initEventsFile(v, files, key) ==
    IF v # "aggregate" /\ ~files[key].exists
    THEN [files EXCEPT ![key] = JsonFile(EmptyObject)]
    ELSE files

\* Faulty variant: "aggregate" starts from an empty object instead of the
\* parsed events.json
writeEvents_StartsEmpty(v, files, key, data) ==
    IF v = "aggregate"
    THEN [k \in DayKeys |-> IF k = key THEN JsonFile(data) ELSE NoFile]
    ELSE [files EXCEPT ![key] = JsonFile(data)]

\* The write of the day's event output: the day's own file, or the entry
\* under the day key of events.json, which is parsed, updated and written
\* back whole.
writeEvents(v, files, key, data) ==
    IF v = "aggregate"
    THEN [k \in DayKeys |->
            IF k = key THEN JsonFile(data)
            ELSE IF files[k].exists THEN JsonFile(files[k].value)
            ELSE files[k]]
    ELSE [files EXCEPT ![key] = JsonFile(data)]

-----------------------------------------------------------------------------
(* Bounds of the model *)

StartYear == 2026     \* the year the clock shows at first
MaxYear == 2027       \* the clock is not advanced beyond this year
MaxNow == 31          \* nor beyond this day
MaxEvents == 2        \* longest event list handed to the validator alone

Variants == {"scheduled", "daily", "aggregate"}
\* the clock jumps between runs by about one TTL
TickDays == {TTL_DAYS - 1, TTL_DAYS, TTL_DAYS + 1}

-----------------------------------------------------------------------------
(* The model's answers *)

DigitChar(d) ==
    CASE d = 0 -> "0" [] d = 1 -> "1" [] d = 2 -> "2" [] d = 3 -> "3"
      [] d = 4 -> "4" [] d = 5 -> "5" [] d = 6 -> "6" [] d = 7 -> "7"
      [] d = 8 -> "8" [] d = 9 -> "9"

\* the four digits of a year
YearText(y) ==
    << DigitChar((y \div 1000) % 10), DigitChar((y \div 100) % 10),
       DigitChar((y \div 10) % 10), DigitChar(y % 10) >>

\* Raw texts the generative model may answer with.  The years lie at the
\* edges of the validator's window for the years the clock shows:
\*   EnText1  "<StartYear-50>|A|Technology"
\*   EnText2  "<StartYear>|B|Tech\n <StartYear+1> | C | Sports "
\*   ZhText1  "<StartYear-50>|shi|keji"
\*   ZhText2  a sentence without any "|"
\*   BlankText  white space only
EnText1 == YearText(StartYear - YearsBack) \o <<"|", "A", "|">> \o En_Technology
EnText2 ==
    YearText(StartYear) \o <<"|", "B", "|", "T", "e", "c", "h", "\n", " ">>
    \o YearText(StartYear + 1) \o <<" ", "|", " ", "C", " ", "|", " ">>
    \o En_Sports \o <<" ">>
ZhText1 == YearText(StartYear - YearsBack) \o <<"|", "shi", "|">> \o Zh_Technology
ZhText2 == <<"wu", "fa", "hui", "da">>
BlankText == <<" ", "\n">>

AITexts ==
    [zh |-> {ZhText1, ZhText2, BlankText},
     en |-> {EnText1, EnText2, BlankText}]

-----------------------------------------------------------------------------
(* Credential Rotator and Retry Orchestrator *)

MaxApiKeys == 2           \* GEMINI_API_KEY_1, GEMINI_API_KEY_2
CONFIG_maxRetries == 3    \* part_000
RetriesPerKey == 2        \* generate-events.js

\* Faulty variant: the budget without the factor apiKeys.length
maxRetries_PerKeyOnly(v, n) ==
    IF v = "scheduled" THEN CONFIG_maxRetries ELSE RetriesPerKey

\* const maxRetries = apiKeys.length * ...
maxRetries(v, n) ==
    IF v = "scheduled" THEN n * CONFIG_maxRetries ELSE n * RetriesPerKey

\* Faulty variant: the cursor stops at the last key instead of wrapping
switchToNextApiKey_NoWrap(index, n) ==
    IF index + 1 < n THEN index + 1 ELSE index

\* switchToNextApiKey
\* Faulty variant: the cursor is left where it is.
switchToNextApiKey_Stays(index, n) == index

switchToNextApiKey(index, n) == (index + 1) % n

NoResults == [zh |-> << >>, en |-> << >>]
NoReturn == [some |-> FALSE, value |-> EmptyObject]
NoHist == [imm |-> FALSE, dateStr |-> "d1", outcome |-> "none",
           out |-> NoFile, cache |-> NoCache]
NoCall == [called |-> "none", events |-> << >>, input |-> << >>]
NoArgs == [events |-> << >>, lang |-> "zh", currentYear |-> StartYear]
\* generateAndSync: the state of its syncToGitHub promise and what it returned
NoPublish == [status |-> "none", returned |-> "none"]
\* one of two processes running side by side, before it starts
NoProc == [pc |-> "idle", nKeys |-> 0, currentKeyIndex |-> 0, langIdx |-> 1,
           retries |-> 0, results |-> NoResults, missed |-> FALSE,
           data |-> EmptyObject]
NoTwin == [proc |-> [p \in {1, 2} |-> NoProc], cacheWriter |-> 0,
           eventsWriter |-> 0]

\* the current year validateEvents compares with
ValidatorYear == IF variant = "daily" THEN procYear ELSE clockYear

\* eventsData of generateAndUpdateEvents, from the raw texts
eventsDataOf(v, res, year) ==
    Bundle(validateEvents(v, parseEvents(v, res.zh), "zh", year),
           validateEvents(v, parseEvents(v, res.en), "en", year))

InitProgram ==
    /\ variant \in Variants
    /\ pc = "off"
    /\ nKeys = 0
    /\ currentKeyIndex = 0
    /\ procYear = StartYear
    /\ dateStr = "d1"
    /\ langIdx = 1
    /\ retries = 0
    /\ results = NoResults
    /\ returned = NoReturn
    /\ eventsFiles = [k \in DayKeys |-> NoFile]
    /\ eventsJsonExists = FALSE
    /\ cacheFiles = [k \in DayKeys |-> NoCache]
    /\ lastUpdated = [exists |-> FALSE, at |-> 0]
    /\ now = 0
    /\ clockYear = StartYear
    /\ attemptLog = << >>
    /\ atStart = NoCache
    /\ hist = NoHist
    /\ publish = NoPublish
    /\ abandoned = {}
    /\ twin = NoTwin

Init ==
    /\ InitProgram
    /\ fnIn = NoArgs
    /\ fnOut = NoCall

\* Faulty variant: a cache hit writes the cache file again
Invoke_RefreshesCache(key) ==
    LET inited == initEventsFile(variant, eventsFiles, key)
        hit == /\ CacheValid(variant, cacheFiles[key], now)
               /\ CacheReadable(cacheFiles[key])
        cachedData == getFromCache(cacheFiles[key])
    IN  /\ dateStr' = key
        /\ eventsJsonExists' = (eventsJsonExists \/ variant = "aggregate")
        /\ attemptLog' = << >>
        /\ atStart' = cacheFiles[key]
        /\ langIdx' = 1
        /\ retries' = 0
        /\ results' = NoResults
        /\ IF hit
           THEN /\ eventsFiles' = writeEvents(variant, inited, key, cachedData)
                /\ returned' = IF variant = "scheduled"
                               THEN [some |-> TRUE, value |-> cachedData]
                               ELSE NoReturn
                /\ pc' = "done"
           ELSE /\ eventsFiles' = inited
                /\ returned' = NoReturn
                /\ pc' = "generating"
        /\ cacheFiles' = IF hit THEN writeToCache(cacheFiles, key, cachedData, now)
                      ELSE cacheFiles
        /\ UNCHANGED << lastUpdated, clockVars >>

\* generateAndUpdateEvents up to its first await: initEventsFile, the
\* cache check and, on a hit, the write of the cached bundle.
Invoke(key) ==
    LET inited == initEventsFile(variant, eventsFiles, key)
        hit == /\ CacheValid(variant, cacheFiles[key], now)
               /\ CacheReadable(cacheFiles[key])
        cachedData == getFromCache(cacheFiles[key])
    IN  /\ dateStr' = key
        /\ eventsJsonExists' = (eventsJsonExists \/ variant = "aggregate")
        /\ attemptLog' = << >>
        /\ atStart' = cacheFiles[key]
        /\ langIdx' = 1
        /\ retries' = 0
        /\ results' = NoResults
        /\ IF hit
           THEN /\ eventsFiles' = writeEvents(variant, inited, key, cachedData)
                /\ returned' = IF variant = "scheduled"
                               THEN [some |-> TRUE, value |-> cachedData]
                               ELSE NoReturn
                /\ pc' = "done"
           ELSE /\ eventsFiles' = inited
                /\ returned' = NoReturn
                /\ pc' = "generating"
        /\ UNCHANGED << cacheFiles, lastUpdated, clockVars >>

\* Faulty variant: the script goes on without an API key
StartProcess_NoKeyCheck(n, key) ==
    /\ pc = "off"
    /\ nKeys' = n
    /\ UNCHANGED << variant, hist, fnVars, extVars >>
    /\ currentKeyIndex' = 0
    /\ procYear' = clockYear
    /\ IF variant = "scheduled"
       THEN /\ pc' = "ready"
            /\ UNCHANGED << invVars, storeVars, clockVars >>
       ELSE Invoke(key)

\* The script is started.  Without an API key it exits at once.  part_000
\* then waits for its schedule or its command line; the other two copies
\* call generateAndUpdateEvents for today right away.
StartProcess(n, key) ==
    /\ pc = "off"
    /\ nKeys' = n
    /\ UNCHANGED << variant, hist, fnVars, extVars >>
    /\ IF n = 0
       THEN /\ pc' = "fatal"
            /\ UNCHANGED << currentKeyIndex, procYear, invVars, storeVars,
                            clockVars >>
       ELSE /\ currentKeyIndex' = 0
            /\ procYear' = clockYear
            /\ IF variant = "scheduled"
               THEN /\ pc' = "ready"
                    /\ UNCHANGED << invVars, storeVars, clockVars >>
               ELSE Invoke(key)

\* part_000: generateAndSync(dateStr), from the command line or the schedule
ScheduledInvoke(key) ==
    /\ pc = "ready"
    /\ Invoke(key)
    /\ UNCHANGED << variant, procVars, hist, fnVars, extVars >>

\* Faulty variant: a language that used up its budget is given up and the
\* loop goes on with the next language
AttemptFailed_SkipsLanguage ==
    /\ attemptLog' = Append(attemptLog,
            [lang |-> LANGUAGES[langIdx], key |-> currentKeyIndex,
             ok |-> FALSE, text |-> << >>])
    /\ IF retries + 1 < maxRetries(variant, nKeys)
       THEN /\ currentKeyIndex' = switchToNextApiKey(currentKeyIndex, nKeys)
            /\ retries' = retries + 1
            /\ pc' = "generating"
            /\ UNCHANGED << langIdx, publish >>
       ELSE IF langIdx < Len(LANGUAGES)
       THEN /\ langIdx' = langIdx + 1
            /\ retries' = 0
            /\ pc' = "generating"
            /\ UNCHANGED << currentKeyIndex, publish >>
       ELSE /\ retries' = retries + 1
            /\ pc' = "failed"
            /\ publish' = IF variant = "scheduled"
                          THEN [publish EXCEPT !.returned = "false"]
                          ELSE publish
            /\ UNCHANGED << currentKeyIndex, langIdx >>
    /\ UNCHANGED << variant, nKeys, procYear, dateStr, results,
                    returned, atStart, storeVars, clockVars, hist, fnVars,
                    twin >>

\* Faulty variant: `retries++` is forgotten
AttemptFailed_NotCounted ==
    /\ attemptLog' = Append(attemptLog,
            [lang |-> LANGUAGES[langIdx], key |-> currentKeyIndex,
             ok |-> FALSE, text |-> << >>])
    /\ retries' = retries
    /\ IF retries < maxRetries(variant, nKeys)
       THEN /\ currentKeyIndex' = switchToNextApiKey(currentKeyIndex, nKeys)
            /\ pc' = "generating"
            /\ publish' = publish
       ELSE /\ currentKeyIndex' = currentKeyIndex
            /\ pc' = "failed"
            \* the error goes up to generateAndSync, whose catch returns false
            /\ publish' = IF variant = "scheduled"
                          THEN [publish EXCEPT !.returned = "false"]
                          ELSE publish
    /\ UNCHANGED << variant, nKeys, procYear, dateStr, langIdx, results,
                    returned, atStart, storeVars, clockVars, hist, fnVars,
                    twin >>

\* The catch block of the retry loop: the attempt failed.
AttemptFailed ==
    /\ attemptLog' = Append(attemptLog,
            [lang |-> LANGUAGES[langIdx], key |-> currentKeyIndex,
             ok |-> FALSE, text |-> << >>])
    /\ retries' = retries + 1
    /\ IF retries + 1 < maxRetries(variant, nKeys)
       THEN /\ currentKeyIndex' = switchToNextApiKey(currentKeyIndex, nKeys)
            /\ pc' = "generating"
            /\ publish' = publish
       ELSE /\ currentKeyIndex' = currentKeyIndex
            /\ pc' = "failed"
            \* the error goes up to generateAndSync, whose catch returns false
            /\ publish' = IF variant = "scheduled"
                          THEN [publish EXCEPT !.returned = "false"]
                          ELSE publish
    /\ UNCHANGED << variant, nKeys, procYear, dateStr, langIdx, results,
                    returned, atStart, storeVars, clockVars, hist, fnVars,
                    twin >>

\* Faulty variant: `success = true` is forgotten: the result is stored and the loop
\* goes on with the same language
AttemptSucceeded_KeepsLooping(aiText) ==
    /\ attemptLog' = Append(attemptLog,
            [lang |-> LANGUAGES[langIdx], key |-> currentKeyIndex,
             ok |-> TRUE, text |-> aiText])
    /\ results' = [results EXCEPT ![LANGUAGES[langIdx]] = aiText]
    /\ pc' = "generating"
    /\ UNCHANGED << variant, procVars, dateStr, langIdx, retries, returned,
                    atStart, storeVars, clockVars, hist, fnVars, publish,
                    twin >>

\* The attempt produced a non-empty text: it is the language's result.  After
\* the last language the bundle is parsed, validated and persisted.
AttemptSucceeded(aiText) ==
    LET lang == LANGUAGES[langIdx]
        res == [results EXCEPT ![lang] = aiText]
        eventsData == eventsDataOf(variant, res, ValidatorYear)
    IN  /\ attemptLog' = Append(attemptLog,
                [lang |-> lang, key |-> currentKeyIndex,
                 ok |-> TRUE, text |-> aiText])
        /\ results' = res
        /\ IF langIdx < Len(LANGUAGES)
           THEN /\ langIdx' = langIdx + 1
                /\ retries' = 0
                /\ pc' = "generating"
                /\ UNCHANGED << returned, storeVars >>
           ELSE /\ cacheFiles' = writeToCache(cacheFiles, dateStr, eventsData, now)
                /\ eventsFiles' = writeEvents(variant, eventsFiles, dateStr, eventsData)
                /\ lastUpdated' = [exists |-> TRUE, at |-> now]
                /\ returned' = IF variant = "scheduled"
                               THEN [some |-> TRUE, value |-> eventsData]
                               ELSE NoReturn
                /\ pc' = "done"
                /\ UNCHANGED << langIdx, retries, eventsJsonExists >>
        /\ UNCHANGED << variant, procVars, dateStr, atStart, clockVars, hist,
                        fnVars, publish, twin >>

\* Faulty variant: the test for an empty text is missing
Respond_AcceptsEmpty(text) ==
    /\ pc = "generating"
    /\ AttemptSucceeded(Trim(text))
    /\ UNCHANGED abandoned

\* The awaited call answers with a text.
Respond(text) ==
    /\ pc = "generating"
    /\ LET aiText == Trim(text)
       IN  IF aiText = << >> THEN AttemptFailed ELSE AttemptSucceeded(aiText)
    /\ UNCHANGED abandoned

\* The awaited race rejects: a transport or model error, or the timer of
\* withTimeout fires first.  (Timeout below tells the two apart.)
Reject ==
    /\ pc = "generating"
    /\ AttemptFailed
    /\ UNCHANGED abandoned

\* withTimeout: the timer fires before the model call settles.  The race
\* rejects, which the retry loop takes as a failed attempt; nothing cancels
\* the call, which stays in flight.
Timeout ==
    /\ pc = "generating"
    /\ AttemptFailed
    /\ abandoned' = abandoned \cup {LANGUAGES[langIdx]}

\* Faulty variant: the late text is taken for the language's result
LateResponse_Stored(lang, text) ==
    /\ lang \in abandoned
    /\ abandoned' = abandoned \ {lang}
    /\ results' = [results EXCEPT ![lang] = Trim(text)]
    /\ UNCHANGED << variant, pc, procVars, dateStr, langIdx, retries, returned,
                    attemptLog, atStart, storeVars, clockVars, hist, fnVars,
                    publish, twin >>

\* A call left in flight by a timeout answers with a text.  Promise.race
\* has settled already: nothing is waiting for the call.
LateResponse(lang, text) ==
    /\ lang \in abandoned
    /\ abandoned' = abandoned \ {lang}
    /\ UNCHANGED << variant, pc, procVars, invVars, storeVars, clockVars,
                    hist, fnVars, publish, twin >>

\* A call left in flight by a timeout ends with an error, which nothing is
\* waiting for either.
LateRejection(lang) ==
    /\ lang \in abandoned
    /\ abandoned' = abandoned \ {lang}
    /\ UNCHANGED << variant, pc, procVars, invVars, storeVars, clockVars,
                    hist, fnVars, publish, twin >>

\* Faulty variant: a failed publish removes what was generated
SyncRejects_RollsBack ==
    /\ publish.status = "running"
    /\ publish' = [status |-> "rejected", returned |-> "false"]
    /\ eventsFiles' = [eventsFiles EXCEPT ![dateStr] = NoFile]
    /\ cacheFiles' = [cacheFiles EXCEPT ![dateStr] = NoCache]
    /\ UNCHANGED << variant, pc, procVars, invVars, eventsJsonExists,
                    lastUpdated, clockVars, hist, fnVars, abandoned, twin >>

\* part_000, generateAndSync: generateAndUpdateEvents has returned, and
\* syncToGitHub starts the sync command.
SyncToGitHub ==
    /\ variant = "scheduled"
    /\ pc = "done"
    /\ publish.status = "none"
    /\ publish' = [publish EXCEPT !.status = "running"]
    /\ UNCHANGED << variant, pc, procVars, invVars, storeVars, clockVars,
                    hist, fnVars, abandoned, twin >>

\* The sync command ended well: generateAndSync returns true.
SyncResolves ==
    /\ publish.status = "running"
    /\ publish' = [status |-> "resolved", returned |-> "true"]
    /\ UNCHANGED << variant, pc, procVars, invVars, storeVars, clockVars,
                    hist, fnVars, abandoned, twin >>

\* The sync command failed: the catch of generateAndSync returns false.
SyncRejects ==
    /\ publish.status = "running"
    /\ publish' = [status |-> "rejected", returned |-> "false"]
    /\ UNCHANGED << variant, pc, procVars, invVars, storeVars, clockVars,
                    hist, fnVars, abandoned, twin >>

\* Faulty variant: every invocation starts again with the first key
Finish_ResetsCursor(stay) ==
    /\ pc \in {"done", "failed", "fatal"}
    /\ stay => (variant = "scheduled" /\ pc # "fatal")
    /\ (variant = "scheduled" /\ pc = "done")
          => publish.status \in {"resolved", "rejected"}
    /\ publish' = NoPublish
    /\ abandoned' = IF stay THEN abandoned ELSE {}
    /\ pc' = IF stay THEN "ready" ELSE "off"
    /\ nKeys' = IF stay THEN nKeys ELSE 0
    /\ currentKeyIndex' = 0
    /\ langIdx' = 1
    /\ retries' = 0
    /\ results' = NoResults
    /\ returned' = NoReturn
    /\ attemptLog' = << >>
    /\ atStart' = NoCache
    /\ hist' = IF pc = "fatal" THEN hist
               ELSE [imm |-> TRUE, dateStr |-> dateStr, outcome |-> pc,
                     out |-> eventsFiles[dateStr],
                     cache |-> cacheFiles[dateStr]]
    /\ UNCHANGED << variant, procYear, dateStr, storeVars, clockVars, fnVars,
                    twin >>

\* The invocation is over: part_000 under --schedule stays alive for the
\* next trigger (the cursor stays where it is); otherwise the process ends,
\* and with it the cursor and the key list.  The locals of the invocation
\* are gone in both cases.
Finish(stay) ==
    /\ pc \in {"done", "failed", "fatal"}
    /\ stay => (variant = "scheduled" /\ pc # "fatal")
    /\ (variant = "scheduled" /\ pc = "done")
          => publish.status \in {"resolved", "rejected"}
    /\ publish' = NoPublish
    /\ abandoned' = IF stay THEN abandoned ELSE {}
    /\ pc' = IF stay THEN "ready" ELSE "off"
    /\ nKeys' = IF stay THEN nKeys ELSE 0
    /\ currentKeyIndex' = IF stay THEN currentKeyIndex ELSE 0
    /\ langIdx' = 1
    /\ retries' = 0
    /\ results' = NoResults
    /\ returned' = NoReturn
    /\ attemptLog' = << >>
    /\ atStart' = NoCache
    /\ hist' = IF pc = "fatal" THEN hist
               ELSE [imm |-> TRUE, dateStr |-> dateStr, outcome |-> pc,
                     out |-> eventsFiles[dateStr],
                     cache |-> cacheFiles[dateStr]]
    /\ UNCHANGED << variant, procYear, dateStr, storeVars, clockVars, fnVars,
                    twin >>

-----------------------------------------------------------------------------
(* The environment between runs *)

Quiet == pc \in {"off", "ready"}

\* Days pass.
Tick(d) ==
    /\ Quiet
    /\ now + d <= MaxNow
    /\ now' = now + d
    /\ hist' = NoHist
    /\ UNCHANGED << variant, pc, procVars, invVars, storeVars, clockYear,
                    fnVars, extVars >>

\* New Year.
NewYear ==
    /\ Quiet
    /\ clockYear < MaxYear
    /\ clockYear' = clockYear + 1
    /\ hist' = NoHist
    /\ UNCHANGED << variant, pc, procVars, invVars, storeVars, now, fnVars,
                    extVars >>

\* A cache file is damaged (truncated, overwritten by something else): it
\* no longer parses.  Its mtime stays or becomes the time of the damage.
CorruptCache(key, touch) ==
    /\ Quiet
    /\ cacheFiles[key].file.exists
    /\ cacheFiles[key].file.parses
    /\ cacheFiles' = [cacheFiles EXCEPT ![key] =
            [file |-> CorruptFile, mtime |-> IF touch THEN now ELSE @.mtime]]
    /\ hist' = NoHist
    /\ UNCHANGED << variant, pc, procVars, invVars, eventsFiles,
                    eventsJsonExists, lastUpdated, clockVars, fnVars,
                    extVars >>

Next ==
    \/ \E n \in 0..MaxApiKeys, key \in RunDays : StartProcess(n, key)
    \/ \E key \in RunDays : ScheduledInvoke(key)
    \/ \E lang \in {"zh", "en"} : \E text \in AITexts[lang] :
          lang = LANGUAGES[langIdx] /\ Respond(text)
    \/ Reject
    \/ SyncToGitHub
    \/ SyncResolves
    \/ SyncRejects
    \/ \E stay \in BOOLEAN : Finish(stay)
    \/ \E d \in TickDays : Tick(d)
    \/ NewYear
    \/ \E key \in RunDays, touch \in BOOLEAN : CorruptCache(key, touch)

Spec == Init /\ [][Next]_vars

\* The same program with the race of withTimeout told apart: the timer may
\* win, and the call it leaves in flight settles later.  The clock and the
\* files are left alone between runs.
NextRace ==
    \/ \E n \in 0..MaxApiKeys, key \in RunDays : StartProcess(n, key)
    \/ \E key \in RunDays : ScheduledInvoke(key)
    \/ \E lang \in {"zh", "en"} : \E text \in AITexts[lang] :
          lang = LANGUAGES[langIdx] /\ Respond(text)
    \/ Reject
    \/ Timeout
    \/ \E lang \in {"zh", "en"} : \E text \in AITexts[lang] :
          LateResponse(lang, text)
    \/ \E lang \in {"zh", "en"} : LateRejection(lang)
    \/ SyncToGitHub
    \/ SyncResolves
    \/ SyncRejects
    \/ \E stay \in BOOLEAN : Finish(stay)

SpecRace == Init /\ [][NextRace]_vars

\* Every model call answers, with a text or with an empty one: the only
\* failed attempts are those of part_000:233-235 (`AI returned empty content`).
NextResponds ==
    \/ \E n \in 0..MaxApiKeys, key \in RunDays : StartProcess(n, key)
    \/ \E key \in RunDays : ScheduledInvoke(key)
    \/ \E lang \in {"zh", "en"} : \E text \in AITexts[lang] :
          lang = LANGUAGES[langIdx] /\ Respond(text)
    \/ SyncToGitHub
    \/ SyncResolves
    \/ SyncRejects
    \/ \E stay \in BOOLEAN : Finish(stay)

SpecResponds == Init /\ [][NextResponds]_vars

\* The race of withTimeout (part_000:157-164, 225-228) settles: the model
\* call resolves or rejects, or the timer rejects after CONFIG.timeout.
Settle ==
    \/ \E lang \in {"zh", "en"} : \E text \in AITexts[lang] :
          lang = LANGUAGES[langIdx] /\ Respond(text)
    \/ Reject
    \/ Timeout

\* An awaited race is not left pending for ever.
SpecFair == Init /\ [][NextRace]_vars /\ WF_vars(Settle)

\* The aggregate script run for either day key, one run after the other,
\* now and a cache lifetime later.
InitAggregate == Init /\ variant = "aggregate"

NextAggregate ==
    \/ \E n \in 0..MaxApiKeys, key \in DayKeys : StartProcess(n, key)
    \/ \E lang \in {"zh", "en"} : \E text \in AITexts[lang] :
          lang = LANGUAGES[langIdx] /\ Respond(text)
    \/ Reject
    \/ Finish(FALSE)
    \/ Tick(TTL_DAYS)

SpecAggregate == InitAggregate /\ [][NextAggregate]_vars

-----------------------------------------------------------------------------
(* Two processes side by side *)

\* Two processes of the same copy of the script are started for the same
\* day key (a scheduled run and a manual one, say) and share the files.
\* Each has its own key list, cursor and locals; a step is what a process
\* does between two awaits or one call of the file system.  The clock
\* stands still.
Procs == {1, 2}

TwinSet(p, rec) == [twin EXCEPT !.proc[p] = rec]

TwinUnchanged ==
    UNCHANGED << variant, pc, procVars, invVars, clockVars, hist, fnVars,
                 publish, abandoned >>

\* The process starts and runs generateAndUpdateEvents up to its first
\* await: initEventsFile, the cache check and, on a hit, the write of the
\* cached bundle.
TwinStart(p, n) ==
    LET pr == twin.proc[p]
        inited == initEventsFile(variant, eventsFiles, dateStr)
        hit == /\ CacheValid(variant, cacheFiles[dateStr], now)
               /\ CacheReadable(cacheFiles[dateStr])
        cachedData == getFromCache(cacheFiles[dateStr])
    IN  /\ pr.pc = "idle"
        /\ eventsJsonExists' = (eventsJsonExists \/ variant = "aggregate")
        /\ IF hit
           THEN /\ eventsFiles' = writeEvents(variant, inited, dateStr, cachedData)
                /\ twin' = [TwinSet(p, [pr EXCEPT !.pc = "done", !.nKeys = n,
                                                  !.data = cachedData])
                              EXCEPT !.eventsWriter = p]
           ELSE /\ eventsFiles' = inited
                /\ twin' = TwinSet(p, [pr EXCEPT !.pc = "generating",
                                                 !.nKeys = n, !.missed = TRUE])
        /\ UNCHANGED << cacheFiles, lastUpdated >>
        /\ TwinUnchanged

\* The catch block of the retry loop
TwinAttemptFailed(p) ==
    LET pr == twin.proc[p]
    IN  /\ twin' = TwinSet(p,
              IF pr.retries + 1 < maxRetries(variant, pr.nKeys)
              THEN [pr EXCEPT !.retries = @ + 1,
                              !.currentKeyIndex = switchToNextApiKey(@, pr.nKeys)]
              ELSE [pr EXCEPT !.retries = @ + 1, !.pc = "failed"])
        /\ UNCHANGED storeVars
        /\ TwinUnchanged

\* The awaited call of the process answers with a text.  After the last
\* language the bundle is parsed and validated; its writes follow.
TwinRespond(p, text) ==
    LET pr == twin.proc[p]
        lang == LANGUAGES[pr.langIdx]
        aiText == Trim(text)
        res == [pr.results EXCEPT ![lang] = aiText]
    IN  /\ pr.pc = "generating"
        /\ IF aiText = << >> THEN TwinAttemptFailed(p)
           ELSE /\ twin' = TwinSet(p,
                      IF pr.langIdx < Len(LANGUAGES)
                      THEN [pr EXCEPT !.results = res, !.langIdx = @ + 1,
                                      !.retries = 0]
                      ELSE [pr EXCEPT !.results = res, !.pc = "writeCache",
                                      !.data = eventsDataOf(variant, res, clockYear)])
                /\ UNCHANGED storeVars
                /\ TwinUnchanged

\* The awaited call of the process rejects or times out.
TwinReject(p) ==
    /\ twin.proc[p].pc = "generating"
    /\ TwinAttemptFailed(p)

\* writeToCache(dateStr, eventsData)
TwinWriteCache(p) ==
    LET pr == twin.proc[p]
    IN  /\ pr.pc = "writeCache"
        /\ cacheFiles' = writeToCache(cacheFiles, dateStr, pr.data, now)
        /\ twin' = [TwinSet(p, [pr EXCEPT !.pc = "writeEvents"])
                      EXCEPT !.cacheWriter = p]
        /\ UNCHANGED << eventsFiles, eventsJsonExists, lastUpdated >>
        /\ TwinUnchanged

\* fs.writeFileSync of the day's event output
TwinWriteEvents(p) ==
    LET pr == twin.proc[p]
    IN  /\ pr.pc = "writeEvents"
        /\ eventsFiles' = writeEvents(variant, eventsFiles, dateStr, pr.data)
        /\ twin' = [TwinSet(p, [pr EXCEPT !.pc = "writeMarker"])
                      EXCEPT !.eventsWriter = p]
        /\ UNCHANGED << cacheFiles, eventsJsonExists, lastUpdated >>
        /\ TwinUnchanged

\* fs.writeFileSync of last-updated.txt
TwinWriteMarker(p) ==
    LET pr == twin.proc[p]
    IN  /\ pr.pc = "writeMarker"
        /\ lastUpdated' = [exists |-> TRUE, at |-> now]
        /\ twin' = TwinSet(p, [pr EXCEPT !.pc = "done"])
        /\ UNCHANGED << eventsFiles, eventsJsonExists, cacheFiles >>
        /\ TwinUnchanged

NextTwo ==
    \/ \E p \in Procs, n \in 1..MaxApiKeys : TwinStart(p, n)
    \/ \E p \in Procs : \E text \in AITexts.zh \cup AITexts.en :
          /\ text \in AITexts[LANGUAGES[twin.proc[p].langIdx]]
          /\ TwinRespond(p, text)
    \/ \E p \in Procs : TwinReject(p)
    \/ \E p \in Procs : TwinWriteCache(p)
    \/ \E p \in Procs : TwinWriteEvents(p)
    \/ \E p \in Procs : TwinWriteMarker(p)

SpecTwo == Init /\ [][NextTwo]_vars

-----------------------------------------------------------------------------
(* validateEvents called on its own *)

\* Event lists to validate: years around the window and not a number, an
\* empty, a blank and a plain title, a category of the vocabulary and one
\* that is not.  ("aggregate" names the title `description`.)
SampleYears(cy) ==
    {NaN, Num(cy - YearsBack - 1), Num(cy - YearsBack), Num(cy), Num(cy + 1)}
SampleTitles == {<< >>, <<" ">>, <<"A">>}
SampleCategories(lang) ==
    IF lang = "zh" THEN {Zh_Technology, <<"ke">>}
    ELSE {En_Technology, <<"T", "e", "c", "h">>}

SampleEvents(v, lang, cy) ==
    IF v = "aggregate"
    THEN {[year |-> y, description |-> t, category |-> c] :
            y \in SampleYears(cy), t \in SampleTitles, c \in SampleCategories(lang)}
    ELSE {[year |-> y, title |-> t, category |-> c] :
            y \in SampleYears(cy), t \in SampleTitles, c \in SampleCategories(lang)}

SeqsUpTo(S, n) == UNION {[1..m -> S] : m \in 0..n}

InitValidate ==
    /\ InitProgram
    /\ fnOut = NoCall
    /\ \E lang \in {"zh", "en"}, cy \in StartYear..MaxYear :
         \E events \in SeqsUpTo(SampleEvents(variant, lang, cy), MaxEvents) :
            fnIn = [events |-> events, lang |-> lang, currentYear |-> cy]

CallValidateEvents ==
    /\ fnOut.called = "none"
    /\ fnOut' = [called |-> "validateEvents",
                 events |-> validateEvents(variant, fnIn.events, fnIn.lang,
                                           fnIn.currentYear),
                 input |-> eventsAfterValidate(variant, fnIn.events,
                                               fnIn.lang, fnIn.currentYear)]
    /\ UNCHANGED << variant, pc, procVars, invVars, storeVars, clockVars,
                    hist, fnIn, extVars >>

\* validateEvents(validateEvents(events, lang), lang)
CallValidateTwice ==
    /\ fnOut.called = "none"
    /\ fnOut' = [called |-> "validateTwice",
                 events |-> validateEvents(variant,
                                validateEvents(variant, fnIn.events, fnIn.lang,
                                               fnIn.currentYear),
                                fnIn.lang, fnIn.currentYear),
                 input |-> eventsAfterValidate(variant, fnIn.events,
                                               fnIn.lang, fnIn.currentYear)]
    /\ UNCHANGED << variant, pc, procVars, invVars, storeVars, clockVars,
                    hist, fnIn, extVars >>

NextValidate == CallValidateEvents \/ CallValidateTwice

SpecValidate == InitValidate /\ [][NextValidate]_vars

-----------------------------------------------------------------------------
(* parseEvents, and parseEvents followed by validateEvents, called on their own *)

MaxLines == 3         \* most lines of a text handed to the parser alone

\* The two lines of the July 20 scenario
ApolloLine ==
    << "1", "9", "6", "9", "|", "A", "p", "o", "l", "l", "o", " ", "1", "1", " ", "m", "o", "o", "n", " ", "l", "a", "n", "d", "i", "n", "g", "|", "T", "e", "c", "h", "n", "o", "l", "o", "g", "y" >>
FutureLine ==
    << "2", "0", "9", "9", "|", "F", "u", "t", "u", "r", "e", " ", "e", "v", "e", "n", "t", "|", "T", "e", "c", "h", "n", "o", "l", "o", "g", "y" >>
ApolloTitle == SubSeq(ApolloLine, 6, 27)

\* Lines of a raw answer: three fields (plain, padded with blanks, with an
\* empty middle field, with a year field that is no number, with an empty
\* year field), one, two and four fields, and a blank line.
SampleLines ==
    { ApolloLine, FutureLine,
      << " ", "1", "9", "9", "0", " ", "|", " ", "B", " ", "|", " " >> \o En_Sports \o << " " >>,
      << "1", "9", "9", "1", "|", "|" >> \o En_Culture,
      << "x", "|", "E", "|" >> \o En_Sports,
      << "|", "F", "|" >> \o En_Sports,
      << "n", "o", "n", "e" >>,
      << "1", "9", "9", "2", "|", "C" >>,
      << "1", "9", "9", "3", "|", "D", "|" >> \o En_Economy \o << "|", "x" >>,
      << " ", " " >> }

\* current years around the scenario's two years and the 50-year window
ScenarioYears == {1968, 1969, 2019, 2020, 2098}

InitParse ==
    /\ InitProgram
    /\ fnOut = NoCall
    /\ \E lines \in SeqsUpTo(SampleLines, MaxLines), cy \in ScenarioYears :
          fnIn = [text |-> Join(lines, "\n"), lang |-> "en", currentYear |-> cy]

\* parseEvents(aiResponse, lang)
CallParseEvents ==
    /\ fnOut.called = "none"
    /\ fnOut' = [called |-> "parseEvents",
                 events |-> parseEvents(variant, fnIn.text),
                 input |-> fnIn.text]
    /\ UNCHANGED << variant, pc, procVars, invVars, storeVars, clockVars,
                    hist, fnIn, extVars >>

\* validateEvents(parseEvents(aiResults[lang], lang), lang)
CallParseAndValidate ==
    /\ fnOut.called = "none"
    /\ fnOut' = [called |-> "pipeline",
                 events |-> validateEvents(variant,
                                parseEvents(variant, fnIn.text),
                                fnIn.lang, fnIn.currentYear),
                 input |-> fnIn.text]
    /\ UNCHANGED << variant, pc, procVars, invVars, storeVars, clockVars,
                    hist, fnIn, extVars >>

NextParse == CallParseEvents \/ CallParseAndValidate

SpecParse == InitParse /\ [][NextParse]_vars

-----------------------------------------------------------------------------
(* Properties *)

Langs == {"zh", "en"}
Running == pc \in {"generating", "done", "failed"}
CurrentLang == LANGUAGES[langIdx]
AttemptsOf(lang) == SelectSeq(attemptLog, LAMBDA a : a.lang = lang)
AllFailed(log) == \A j \in 1..Len(log) : ~log[j].ok
\* the events stored under a language in a file
Stored(file, lang) ==
    IF file.exists /\ file.parses THEN file.value.ev[lang] ELSE << >>
\* the cache file found at the start parsed / did not parse and was
\* younger than 30 days
FoundFreshReadable ==
    atStart.file.exists /\ atStart.file.parses /\ now - atStart.mtime < TTL_DAYS
FoundFreshCorrupt ==
    atStart.file.exists /\ ~atStart.file.parses /\ now - atStart.mtime < TTL_DAYS

\* C1  Retry exhaustion.  With N >= 1 keys the budget of a language is N*k
\* (k = 3 in part_000, 2 in generate-events.js).  A language never gets
\* more than N*k attempts; the invocation fails exactly when all N*k
\* attempts of the language being generated have failed, whatever the
\* cursor was when the language started and whatever the language before
\* it used up.
C1_Budget == nKeys * (IF variant = "scheduled" THEN 3 ELSE 2)
C1_RetryExhaustion ==
    (Running /\ nKeys >= 1) =>
        \A l \in Langs :
            LET a == AttemptsOf(l)
            IN  /\ Len(a) <= C1_Budget
                /\ (AllFailed(a) /\ Len(a) = C1_Budget)
                      <=> (pc = "failed" /\ CurrentLang = l)
C1_Witness ==
    /\ pc = "failed" /\ variant = "scheduled" /\ nKeys = 2
    /\ CurrentLang = "en"
    /\ Len(AttemptsOf("zh")) = 2
    /\ AttemptsOf("en")[1].key = 1
    /\ Len(AttemptsOf("en")) = 6

\* C2  Retry success count.  A language that got its result after i failed
\* attempts has exactly i+1 attempts: the i failures, each made with the
\* next key in rotation, then the successful attempt, whose (trimmed) text
\* is the language's result; nothing is attempted for it afterwards.  A
\* language without result has no successful attempt.
C2_RetrySuccessCount ==
    Running =>
        \A l \in Langs :
            LET a == AttemptsOf(l)
                i == Len(a) - 1
            IN  IF results[l] = << >> THEN AllFailed(a)
                ELSE /\ Len(a) >= 1
                     /\ a[i + 1].ok
                     /\ results[l] = a[i + 1].text
                     /\ \A j \in 1..i : ~a[j].ok
                     /\ \A j \in 1..(i + 1) :
                           a[j].key = (a[1].key + j - 1) % nKeys
C2_Witness ==
    /\ nKeys = 2
    /\ results.en # << >>
    /\ Len(AttemptsOf("en")) = 2
    /\ AttemptsOf("en")[1].key = 0 /\ ~AttemptsOf("en")[1].ok
    /\ AttemptsOf("en")[2].key = 1 /\ AttemptsOf("en")[2].ok

\* C3  Whole bundle or nothing.  After an invocation that failed because a
\* language was exhausted, neither the cache entry nor the event file of
\* the day holds a bundle that lacks a configured language, the file that
\* initEventsFile created included.
C3_CompleteOrAbsent(key) ==
    /\ (eventsFiles[key].exists /\ eventsFiles[key].parses)
          => eventsFiles[key].value.keys = Langs
    /\ (cacheFiles[key].file.exists /\ cacheFiles[key].file.parses)
          => cacheFiles[key].file.value.keys = Langs
C3_WholeBundleOrNothing ==
    /\ pc = "failed" => C3_CompleteOrAbsent(dateStr)
    /\ (hist.imm /\ hist.outcome = "failed" /\ Quiet)
          => C3_CompleteOrAbsent(hist.dateStr)

\* C4  Persisted-record invariant, as claimed, for the two copies the claim
\* cites (part_000 and the per-day generate-events.js): in every state every
\* record of an event file has currentYear-50 <= year <= currentYear and a
\* category of its language's vocabulary.
C4_PersistedRecordInvariant ==
    variant # "aggregate" =>
        \A k \in DayKeys, l \in Langs :
            \A j \in 1..Len(Stored(eventsFiles[k], l)) :
                LET e == Stored(eventsFiles[k], l)[j]
                IN  /\ ~e.year.isNaN
                    /\ clockYear - 50 <= e.year.n
                    /\ e.year.n <= clockYear
                    /\ e.category \in CATEGORIES[l]

\* C4 amended.  In every state every record of an event file has a year
\* that is a number <= currentYear and a category of its language's
\* vocabulary; currentYear-50 <= year holds when part_000 or the per-day
\* generate-events.js has just generated the bundle, not for good: the
\* clock advances and a cache replay does not validate again.
C4_PersistedRecordsAmended ==
    /\ \A k \in DayKeys, l \in Langs :
          \A j \in 1..Len(Stored(eventsFiles[k], l)) :
              LET e == Stored(eventsFiles[k], l)[j]
              IN  /\ ~e.year.isNaN
                  /\ e.year.n <= clockYear
                  /\ e.category \in CATEGORIES[l]
    /\ (variant # "aggregate" /\ pc = "done" /\ attemptLog # << >>)
          => \A l \in Langs :
                \A j \in 1..Len(Stored(eventsFiles[dateStr], l)) :
                    clockYear - 50 <= Stored(eventsFiles[dateStr], l)[j].year.n
C4_Witness ==
    /\ variant # "aggregate" /\ pc = "done" /\ attemptLog = << >>
    /\ \E l \in Langs :
          \E j \in 1..Len(Stored(eventsFiles[dateStr], l)) :
              Stored(eventsFiles[dateStr], l)[j].year.n < clockYear - 50

\* C5  Validator year filter: no record whose year is outside
\* [currentYear-50, currentYear] is in the output of validateEvents.
C5_ValidatorYearFilter ==
    fnOut.called = "validateEvents" =>
        \A j \in 1..Len(fnOut.events) :
            /\ ~fnOut.events[j].year.isNaN
            /\ fnIn.currentYear - 50 <= fnOut.events[j].year.n
            /\ fnOut.events[j].year.n <= fnIn.currentYear

\* C6  Validator category repair: a record with a year in range, a
\* non-empty title and a category outside the vocabulary is kept, with the
\* fallback term ("Other", qita) as its category; no record is dropped for
\* its category alone.
C6_TitleOf(e) == IF variant = "aggregate" THEN e.description ELSE e.title
C6_Fallback(lang) == IF lang = "zh" THEN <<"qi", "ta">> ELSE <<"O", "t", "h", "e", "r">>
C6_YearAndTitleGood(e) ==
    /\ ~e.year.isNaN
    /\ fnIn.currentYear - 50 <= e.year.n
    /\ e.year.n <= fnIn.currentYear
    /\ Trim(C6_TitleOf(e)) # << >>
C6_ValidatorCategoryRepair ==
    fnOut.called = "validateEvents" =>
        /\ \A j \in 1..Len(fnIn.events) :
              LET e == fnIn.events[j]
              IN  (C6_YearAndTitleGood(e) /\ e.category \notin CATEGORIES[fnIn.lang])
                  => \E m \in 1..Len(fnOut.events) :
                        fnOut.events[m] =
                            [e EXCEPT !.category = C6_Fallback(fnIn.lang)]
        /\ Len(fnOut.events) >=
              Cardinality({j \in 1..Len(fnIn.events) :
                              C6_YearAndTitleGood(fnIn.events[j])})

C8_CacheHitSkipsGeneration ==
    (Running /\ FoundFreshReadable) =>
        /\ pc = "done"
        /\ attemptLog = << >>
        /\ results = [zh |-> << >>, en |-> << >>]
        /\ cacheFiles[dateStr] = atStart
        /\ eventsFiles[dateStr].exists /\ eventsFiles[dateStr].parses
        /\ eventsFiles[dateStr].value = atStart.file.value
C8_Witness ==
    /\ pc = "done" /\ attemptLog = << >>
    /\ now - atStart.mtime = 29
    /\ Stored(eventsFiles[dateStr], "en") # << >>
    /\ Stored(eventsFiles[dateStr], "zh") # << >>

\* C9  Idempotence.  An invocation that follows at once (no time passed,
\* nothing else touched the files) an invocation for the same day key which
\* left a valid cache makes no generation attempt and leaves the day's event
\* output exactly as the first left it.
C9_Idempotence ==
    ( /\ Running /\ hist.imm /\ hist.dateStr = dateStr
      /\ hist.cache.file.exists /\ hist.cache.file.parses
      /\ now - hist.cache.mtime < 30 )
    => /\ pc = "done"
       /\ attemptLog = << >>
       /\ eventsFiles[dateStr] = hist.out
       /\ cacheFiles[dateStr] = hist.cache
C9_Witness ==
    /\ pc = "done" /\ attemptLog = << >>
    /\ hist.imm /\ hist.dateStr = dateStr /\ hist.outcome = "done"
    /\ hist.cache.mtime = now /\ now > 0
    /\ Stored(hist.out, "en") # << >>
    /\ eventsFiles[dateStr] = hist.out

\* C10  A corrupt cache is a miss.  An invocation that finds a cache file
\* young enough but unreadable goes on to generate; it fails only by
\* exhausting a language's budget, and when generation succeeds the cache
\* file and the event file hold the newly generated bundle.
C10_CorruptCacheIsMiss ==
    (Running /\ FoundFreshCorrupt) =>
        /\ pc = "failed" => Len(AttemptsOf(CurrentLang)) = C1_Budget
        /\ pc = "done" =>
              /\ attemptLog # << >>
              /\ results.zh # << >> /\ results.en # << >>
              /\ cacheFiles[dateStr].file.exists
              /\ cacheFiles[dateStr].file.parses
              /\ cacheFiles[dateStr].mtime = now
              /\ cacheFiles[dateStr].file.value.keys = Langs
              /\ cacheFiles[dateStr].file.value
                    = eventsDataOf(variant, results, clockYear)
              /\ eventsFiles[dateStr].exists /\ eventsFiles[dateStr].parses
              /\ eventsFiles[dateStr].value = cacheFiles[dateStr].file.value
C10_Witness ==
    /\ pc = "done" /\ FoundFreshCorrupt /\ attemptLog # << >>
    /\ Stored(cacheFiles[dateStr].file, "en") # << >>

\* C11  Persist step.  Every invocation that ends in Done, by the cache hit
\* or by generation, has written the bundle to the day's event output and
\* has then updated the last-updated marker (the marker carries the time of
\* this invocation).
C11_PersistUpdatesMarker ==
    pc = "done" =>
        /\ eventsFiles[dateStr].exists /\ eventsFiles[dateStr].parses
        /\ eventsFiles[dateStr].value.keys = Langs
        /\ lastUpdated.exists
        /\ lastUpdated.at = now

\* C13  Parser robustness.  parseEvents emits one record for every
\* non-blank line that splits on "|" into exactly three fields, in line
\* order, carrying the trimmed second and third field, and nothing for any
\* other line: a line with fewer or more than three fields is skipped and
\* the lines after it are still parsed.
C13_ThreeFields(line) ==
    Trim(line) # << >> /\ Len(Split(Trim(line), "|")) = 3
C13_Lines == Split(fnIn.text, "\n")
C13_Kept == SelectSeq(C13_Lines, C13_ThreeFields)
C13_TitleOf(e) == IF variant = "aggregate" THEN e.description ELSE e.title
C13_ParserRobustness ==
    fnOut.called = "parseEvents" =>
        /\ Len(fnOut.events) = Len(C13_Kept)
        /\ \A j \in 1..Len(fnOut.events) :
              LET parts == Split(Trim(C13_Kept[j]), "|")
              IN  /\ C13_TitleOf(fnOut.events[j]) = Trim(parts[2])
                  /\ fnOut.events[j].category = Trim(parts[3])

\* C14  End-to-end scenario, as claimed.  For the answer of the two lines
\* "1969|Apollo 11 moon landing|Technology" and "2099|Future event|
\* Technology", language en and any current year <= 2098, parsing and
\* validating leaves exactly the 1969 record.
C14_IsScenario ==
    /\ fnOut.called = "pipeline"
    /\ fnIn.text = Join(<< ApolloLine, FutureLine >>, "\n")
    /\ fnIn.lang = "en"
    /\ fnIn.currentYear <= 2098
C14_ApolloOnly ==
    /\ Len(fnOut.events) = 1
    /\ fnOut.events[1].year = Num(1969)
    /\ C13_TitleOf(fnOut.events[1]) = ApolloTitle
    /\ fnOut.events[1].category = En_Technology
C12_TimerWins ==
    (abandoned' # abandoned /\ abandoned \subseteq abandoned')
    => /\ pc = "generating"
       /\ retries' = retries + 1
       /\ Len(attemptLog') = Len(attemptLog) + 1
       /\ ~attemptLog'[Len(attemptLog')].ok
       /\ results' = results
       /\ IF retries + 1 < C1_Budget
          THEN pc' = "generating"
               /\ currentKeyIndex' = (currentKeyIndex + 1) % nKeys
          ELSE pc' = "failed"
C12_LateIgnored ==
    (abandoned' # abandoned /\ abandoned' \subseteq abandoned /\ pc' = pc)
    => UNCHANGED << results, retries, currentKeyIndex, langIdx, attemptLog,
                    returned, storeVars, publish >>
C12_TimeoutRace == [][C12_TimerWins /\ C12_LateIgnored]_vars
C12_Witness ==
    /\ pc = "generating" /\ CurrentLang = "en"
    /\ "zh" \in abandoned
    /\ results.zh # << >>

\* C15  Bundle keys.  The bundle an invocation has persisted or returned
\* when it is Done has exactly the configured languages as keys, in the
\* day's event output, in the cache file (any cache file that parses) and
\* in the returned value; a language whose records were all dropped is
\* there with an empty list.
C15_BundleKeys ==
    /\ \A k \in DayKeys :
          (cacheFiles[k].file.exists /\ cacheFiles[k].file.parses)
             => cacheFiles[k].file.value.keys = Langs
    /\ pc = "done" =>
          /\ eventsFiles[dateStr].exists /\ eventsFiles[dateStr].parses
          /\ eventsFiles[dateStr].value.keys = Langs
          /\ returned.some => returned.value.keys = Langs
          /\ variant = "scheduled" => returned.some
C15_Witness ==
    /\ pc = "done" /\ attemptLog # << >>
    /\ eventsFiles[dateStr].value.keys = Langs
    /\ Stored(eventsFiles[dateStr], "zh") = << >>
    /\ Stored(eventsFiles[dateStr], "en") = << >>
    /\ cacheFiles[dateStr].file.value.keys = Langs

\* C16  Credential rotation.  The cursor is always an index in 0..N-1; it
\* only ever moves from c to (c+1) mod N; the number of keys does not
\* change while the process lives; an attempt that follows a failed one
\* uses the next key (wrapping to the first after the last), one that
\* follows a success uses the same key.
C16_CursorInRange ==
    /\ nKeys >= 1 => currentKeyIndex \in 0..(nKeys - 1)
    /\ \A j \in 1..(Len(attemptLog) - 1) :
          attemptLog[j + 1].key =
             IF attemptLog[j].ok THEN attemptLog[j].key
             ELSE (attemptLog[j].key + 1) % nKeys
    /\ (pc = "generating" /\ attemptLog # << >>) =>
          currentKeyIndex =
             IF attemptLog[Len(attemptLog)].ok
             THEN attemptLog[Len(attemptLog)].key
             ELSE (attemptLog[Len(attemptLog)].key + 1) % nKeys
C16_CursorStep ==
    /\ (nKeys >= 1 /\ nKeys' = nKeys /\ currentKeyIndex' # currentKeyIndex)
          => currentKeyIndex' = (currentKeyIndex + 1) % nKeys
    /\ (pc # "off" /\ pc' # "off") => nKeys' = nKeys
C16_CredentialRotation == [](C16_CursorInRange) /\ [][C16_CursorStep]_vars
C16_Witness ==
    /\ nKeys = 2 /\ Len(attemptLog) >= 3
    /\ attemptLog[1].key = 0 /\ ~attemptLog[1].ok
    /\ attemptLog[2].key = 1 /\ ~attemptLog[2].ok
    /\ attemptLog[3].key = 0

\* C17  No credentials is fatal at startup.  A script started without any
\* key ends with the fatal error at once: it makes no attempt, writes no
\* cache file, event file or marker, retries nothing, and from the fatal
\* error the process can only end.
C17_NoCredentialsFatal ==
    [][ /\ (pc = "off" /\ pc' # "off" /\ nKeys' = 0)
           => (pc' = "fatal" /\ attemptLog' = << >> /\ retries' = 0
               /\ UNCHANGED storeVars)
        /\ pc = "fatal"
           => (pc' = "off" /\ attemptLog' = << >> /\ UNCHANGED storeVars)
      ]_vars
C17_Witness ==
    /\ pc = "fatal" /\ nKeys = 0
    /\ lastUpdated.exists
    /\ attemptLog = << >>

\* C18  Sequential languages.  The attempts of an invocation are those of
\* zh followed by those of en; en is attempted only after an attempt of zh
\* has succeeded; when zh uses up its budget nothing is attempted for en.
C18_SequentialLanguages ==
    Running =>
        /\ \A i, j \in 1..Len(attemptLog) :
              (i < j /\ attemptLog[i].lang = "en") => attemptLog[j].lang = "en"
        /\ AttemptsOf("en") # << >> =>
              /\ results.zh # << >>
              /\ AttemptsOf("zh") # << >>
              /\ AttemptsOf("zh")[Len(AttemptsOf("zh"))].ok
        /\ (CurrentLang = "en") <=> (results.zh # << >>)
        /\ (pc = "failed" /\ ~AttemptsOf("zh")[Len(AttemptsOf("zh"))].ok)
              => AttemptsOf("en") = << >>
C18_Witness ==
    /\ pc = "failed" /\ CurrentLang = "en"
    /\ Len(AttemptsOf("zh")) = 2
    /\ results.zh # << >>

\* C19  Publish does not affect data.  In generateAndSync the publish step
\* starts only after generateAndUpdateEvents has returned and never after a
\* failed generation; a publish that fails leaves the cache file, the event
\* output and the marker as generation left them, and generateAndSync
\* returns false (nothing is thrown: the process goes on).
C19_PublishState ==
    /\ publish.status # "none" => (variant = "scheduled" /\ pc = "done")
    /\ (variant = "scheduled" /\ pc = "failed")
          => publish = [status |-> "none", returned |-> "false"]
    /\ publish.status = "rejected" => publish.returned = "false"
    /\ publish.status = "resolved" => publish.returned = "true"
    /\ publish.status \in {"none", "running"} /\ pc # "failed"
          => publish.returned = "none"
C19_PublishStep ==
    (publish.status = "running" /\ publish' # publish)
    => /\ UNCHANGED storeVars
       /\ pc' = "done"
       /\ publish'.status \in {"resolved", "rejected"}
C19_PublishKeepsData == [](C19_PublishState) /\ [][C19_PublishStep]_vars
C19_Witness ==
    /\ publish = [status |-> "rejected", returned |-> "false"]
    /\ pc = "done" /\ attemptLog # << >>
    /\ Stored(eventsFiles[dateStr], "en") # << >>
    /\ cacheFiles[dateStr].file.exists
    /\ lastUpdated.exists

\* C20  No deduplication of concurrent runs.  Of two processes started for
\* the same day key nothing keeps the second from generating while the
\* first does: each one that missed the cache and generated writes the
\* cache file and the event output, and each file holds what the process
\* that wrote it last wrote.
C20_Data(p) == JsonRoundTrip(twin.proc[p].data)
C20_LastWriterWins ==
    /\ twin.cacheWriter # 0 =>
          /\ cacheFiles[dateStr].file.exists /\ cacheFiles[dateStr].file.parses
          /\ cacheFiles[dateStr].file.value = C20_Data(twin.cacheWriter)
    /\ twin.eventsWriter # 0 =>
          /\ eventsFiles[dateStr].exists /\ eventsFiles[dateStr].parses
          /\ eventsFiles[dateStr].value = C20_Data(twin.eventsWriter)
    /\ \A p \in Procs :
          (twin.proc[p].pc = "done" /\ twin.proc[p].missed) =>
             /\ twin.cacheWriter # 0 /\ twin.eventsWriter # 0
             /\ twin.cacheWriter # p =>
                   twin.proc[twin.cacheWriter].pc
                      \in {"writeEvents", "writeMarker", "done"}
             /\ twin.eventsWriter # p =>
                   twin.proc[twin.eventsWriter].pc \in {"writeMarker", "done"}
C20_Witness ==
    /\ \A p \in Procs : twin.proc[p].pc = "done" /\ twin.proc[p].missed
    /\ C20_Data(1) # C20_Data(2)
    /\ twin.cacheWriter = 2 /\ twin.eventsWriter = 2
    /\ cacheFiles[dateStr].file.value = C20_Data(2)
    /\ eventsFiles[dateStr].value = C20_Data(2)


\* C21  Per-credential cap.  Among the attempts of one language no key is
\* used more than k times (k = 3 in part_000, 2 in generate-events.js),
\* for every number of keys N >= 1 and every cursor the language started
\* with; when all N*k attempts of the language have failed, each of the N
\* keys was used exactly k times.
C21_PerKey == IF variant = "scheduled" THEN CONFIG_maxRetries ELSE RetriesPerKey
C21_UsesOf(lang, key) ==
    Len(SelectSeq(AttemptsOf(lang), LAMBDA a : a.key = key))
C21_PerCredentialCap ==
    (Running /\ nKeys >= 1) =>
        \A l \in Langs :
            /\ \A j \in 1..Len(AttemptsOf(l)) : AttemptsOf(l)[j].key \in 0..(nKeys - 1)
            /\ \A key \in 0..(nKeys - 1) :
                  /\ C21_UsesOf(l, key) <= C21_PerKey
                  /\ (AllFailed(AttemptsOf(l)) /\ Len(AttemptsOf(l)) = nKeys * C21_PerKey)
                        => C21_UsesOf(l, key) = C21_PerKey
C21_Witness ==
    /\ pc = "failed" /\ variant = "scheduled" /\ nKeys = 2
    /\ CurrentLang = "en"
    /\ AttemptsOf("en")[1].key = 1
    /\ C21_UsesOf("en", 0) = 3 /\ C21_UsesOf("en", 1) = 3


\* C22  Cache entry immutable within TTL.  An invocation that finds the
\* day's cache file readable and younger than 30 days leaves its content
\* and its write time as they are, however often it is repeated; the
\* program writes a cache file only in an invocation for that day which
\* found none, or found the file 30 days old or older (or unreadable), and
\* the write time it sets is the current time.
C22_Written(k) ==
    cacheFiles'[k] # cacheFiles[k] /\ cacheFiles'[k].file.parses
C22_CacheImmutableStep ==
    \A k \in DayKeys :
        C22_Written(k) =>
            /\ k = dateStr /\ pc = "generating"
            /\ cacheFiles[k] = atStart
            /\ (atStart.file.exists /\ atStart.file.parses)
                  => now - atStart.mtime >= TTL_DAYS
            /\ cacheFiles'[k].mtime = now
C22_CacheImmutable ==
    /\ [](FoundFreshReadable => cacheFiles[dateStr] = atStart)
    /\ [][C22_CacheImmutableStep]_vars
C22_Witness ==
    /\ pc = "done" /\ attemptLog = << >>
    /\ hist.imm /\ hist.dateStr = dateStr /\ hist.outcome = "done"
    /\ hist.cache = cacheFiles[dateStr]
    /\ Stored(cacheFiles[dateStr].file, "en") # << >>
    /\ cacheFiles[dateStr].mtime = 0 /\ now = TTL_DAYS - 1


\* C23  Empty response is a failure.  When every model call answers, an
\* attempt whose text is empty after trimming is a failed attempt like any
\* other: it counts against the budget of the language, the next attempt
\* (if one is left) uses the next key, and the text is not stored.  Every
\* stored result, and so every text parsed, is a non-empty trimmed text of
\* a successful attempt, and the invocation fails only when the language's
\* whole budget is used up by failed attempts.
C23_EmptyResponseIsFailure ==
    (Running /\ nKeys >= 1) =>
        /\ \A l \in Langs :
              LET a == AttemptsOf(l)
              IN  /\ Len(a) <= C1_Budget
                  /\ \A j \in 1..Len(a) :
                        /\ a[j].ok => (a[j].text # << >> /\ Trim(a[j].text) = a[j].text)
                        /\ a[j].ok => (j = Len(a) /\ results[l] = a[j].text)
                        /\ (~a[j].ok /\ j < Len(a))
                              => a[j + 1].key = (a[j].key + 1) % nKeys
                  /\ (a = << >> \/ ~a[Len(a)].ok) => results[l] = << >>
        /\ pc = "generating" => retries = Len(AttemptsOf(CurrentLang))
        /\ (pc = "done" /\ attemptLog # << >>)
              => (results.zh # << >> /\ results.en # << >>)
        /\ pc = "failed" =>
              /\ AllFailed(AttemptsOf(CurrentLang))
              /\ Len(AttemptsOf(CurrentLang)) = C1_Budget
C23_Witness ==
    /\ pc = "done" /\ nKeys = 2 /\ Len(attemptLog) = 4
    /\ ~attemptLog[1].ok /\ attemptLog[2].ok /\ attemptLog[2].key = 1
    /\ ~attemptLog[3].ok /\ attemptLog[3].key = 1
    /\ attemptLog[4].ok /\ attemptLog[4].key = 0
    /\ results.en = attemptLog[4].text


\* C24  Termination.  When no awaited model call is left pending for ever,
\* every invocation that starts generating ends as done or as failed.  An
\* invocation is done at once on a cache hit (no attempt made) and starts
\* generating on a miss; from generating it fails only by a failed attempt
\* and is done only by the successful attempt of the last language, which
\* parses, validates and writes the bundle; done and failed are left only
\* by the end of the invocation.  One invocation makes at most
\* |LANGUAGES| * N * k attempts.
C24_Started == pc \in {"off", "ready"} /\ pc' \in {"generating", "done"}
C24_TransitionStep ==
    /\ pc = "off" => pc' \in {"off", "fatal", "ready", "generating", "done"}
    /\ pc = "fatal" => pc' \in {"fatal", "off"}
    /\ pc = "ready" => pc' \in {"ready", "generating", "done"}
    /\ pc = "generating" => pc' \in {"generating", "done", "failed"}
    /\ pc = "done" => pc' \in {"done", "ready", "off"}
    /\ pc = "failed" => pc' \in {"failed", "ready", "off"}
    /\ C24_Started =>
          /\ attemptLog' = << >>
          /\ atStart' = cacheFiles[dateStr']
          /\ pc' = "done" <=>
                (atStart'.file.exists /\ atStart'.file.parses
                   /\ now - atStart'.mtime < TTL_DAYS)
    /\ (pc = "generating" /\ pc' = "failed") =>
          /\ Len(attemptLog') = Len(attemptLog) + 1
          /\ ~attemptLog'[Len(attemptLog')].ok
    /\ (pc = "generating" /\ pc' = "done") =>
          /\ Len(attemptLog') = Len(attemptLog) + 1
          /\ attemptLog'[Len(attemptLog')].ok
          /\ attemptLog'[Len(attemptLog')].lang = LANGUAGES[Len(LANGUAGES)]
          /\ results'.zh # << >> /\ results'.en # << >>
          /\ cacheFiles'[dateStr].file
                = JsonFile(eventsDataOf(variant, results', clockYear))
          /\ eventsFiles'[dateStr].value = cacheFiles'[dateStr].file.value
C24_Termination ==
    /\ [](Running => Len(attemptLog) <= Len(LANGUAGES) * C1_Budget)
    /\ [][C24_TransitionStep]_vars
    /\ (pc = "generating") ~> (pc \in {"done", "failed"})
C24_Witness ==
    /\ pc = "failed" /\ variant = "scheduled" /\ nKeys = 2
    /\ CurrentLang = "en"
    /\ Len(AttemptsOf("zh")) = 6
    /\ Len(attemptLog) = 12
    /\ abandoned # {}


\* C25  Validator characterization (part_000 and the per-day script).  The
\* result of validateEvents is the input records, in input order, whose
\* year is a number in [currentYear - 50, currentYear] and whose title is
\* not empty after trimming; each keeps its year and title, and its
\* category if that is a term of the language's vocabulary, else gets the
\* fallback term.  A record with an empty title is dropped also when its
\* category is not in the vocabulary.
C25_Kept(e) ==
    /\ ~e.year.isNaN
    /\ fnIn.currentYear - 50 <= e.year.n
    /\ e.year.n <= fnIn.currentYear
    /\ Trim(e.title) # << >>
C25_Category(c) ==
    IF c \in CATEGORIES[fnIn.lang] THEN c
    ELSE IF fnIn.lang = "zh" THEN Zh_Other ELSE En_Other
C25_Expected ==
    LET kept == SelectSeq(fnIn.events, C25_Kept)
    IN  [j \in 1..Len(kept) |->
            [year |-> kept[j].year, title |-> kept[j].title,
             category |-> C25_Category(kept[j].category)]]
C25_ValidatorCharacterization ==
    (fnOut.called = "validateEvents" /\ variant # "aggregate")
        => fnOut.events = C25_Expected
C25_Witness ==
    /\ fnOut.called = "validateEvents" /\ variant = "scheduled"
    /\ fnIn.lang = "zh" /\ Len(fnIn.events) = 2
    /\ fnIn.events[1] = [year |-> Num(fnIn.currentYear), title |-> <<" ">>,
                         category |-> <<"ke">>]
    /\ fnIn.events[2] = [year |-> Num(fnIn.currentYear - 50), title |-> <<"A">>,
                         category |-> <<"ke">>]
    /\ fnOut.events = << [year |-> Num(fnIn.currentYear - 50), title |-> <<"A">>,
                          category |-> Zh_Other] >>


\* C26  Validator purity.  validateEvents has no effect on its argument:
\* after the call the array passed in holds the same records, with the
\* same fields, as before the call, also the records whose category is
\* not in the vocabulary.
C26_ValidatorPurity ==
    fnOut.called = "validateEvents" => fnOut.input = fnIn.events

\* C30  Validator idempotence.  With the current year fixed, validating
\* the result of validateEvents again gives that result again.
C30_ValidatorIdempotence ==
    fnOut.called = "validateTwice" =>
        fnOut.events = validateEvents(variant, fnIn.events, fnIn.lang,
                                      fnIn.currentYear)
C30_Witness ==
    /\ fnOut.called = "validateTwice" /\ variant = "daily"
    /\ fnIn.lang = "en" /\ Len(fnIn.events) = 2
    /\ fnIn.events[1].year = Num(fnIn.currentYear + 1)
    /\ fnIn.events[2].category \notin CATEGORIES["en"]
    /\ Len(fnOut.events) = 1
    /\ fnOut.events[1].category = En_Other
    /\ fnOut.events[1].title = fnIn.events[2].title


\* C27  Non-numeric year.  Each line of three fields whose year field does
\* not start (after blanks and a sign) with a digit gives one record with
\* a not-a-number year in the result of parseEvents, and only those lines
\* do; the result of parseEvents followed by validateEvents has no record
\* with a not-a-number year.
C27_NoInteger(field) ==
    LET t == Trim(field)
        u == IF t # << >> /\ t[1] \in {"+", "-"} THEN Tail(t) ELSE t
    IN  u = << >> \/ u[1] \notin Digits
C27_Lines == Split(fnIn.text, "\n")
C27_NaNLines ==
    {j \in 1..Len(C27_Lines) :
        LET parts == Split(Trim(C27_Lines[j]), "|")
        IN  Len(parts) = 3 /\ C27_NoInteger(parts[1])}
C27_NaNRecords == {j \in 1..Len(fnOut.events) : fnOut.events[j].year.isNaN}
C27_NoNaNOutput ==
    fnOut.called = "pipeline" =>
        \A j \in 1..Len(fnOut.events) : ~fnOut.events[j].year.isNaN
C27_NonNumericYear ==
    /\ fnOut.called = "parseEvents" =>
          Cardinality(C27_NaNRecords) = Cardinality(C27_NaNLines)
    /\ C27_NoNaNOutput


\* C28  Aggregate file frame.  In the script that keeps one events.json
\* keyed by day, a step of an invocation for one day key leaves the entry
\* of every other day key as it is; so at any time the entry of a day key
\* is the bundle the last successful generation for that key wrote (the
\* bundle in that key's cache file), and is absent if there was none.
C28_FrameStep ==
    \A k \in DayKeys : k # dateStr' => eventsFiles'[k] = eventsFiles[k]
C28_OwnBundle ==
    \A k \in DayKeys :
        /\ eventsFiles[k].exists <=> cacheFiles[k].file.exists
        /\ eventsFiles[k].exists =>
              /\ eventsFiles[k].parses
              /\ eventsFiles[k].value = cacheFiles[k].file.value
C29_Attempted == Len(attemptLog') = Len(attemptLog) + 1
C29_Failed == C29_Attempted /\ ~attemptLog'[Len(attemptLog')].ok
C29_CursorStep ==
    /\ (pc' # "off" /\ currentKeyIndex' # currentKeyIndex)
          => (C29_Failed /\ pc' = "generating")
    /\ (C29_Failed /\ pc' = "generating")
          => currentKeyIndex' = (currentKeyIndex + 1) % nKeys
    /\ (C29_Failed /\ pc' = "failed") => currentKeyIndex' = currentKeyIndex
    /\ C29_Attempted
          => attemptLog'[Len(attemptLog')].key = currentKeyIndex
C29_CursorOnlyByFailures == [][C29_CursorStep]_vars
C29_Witness ==
    /\ variant = "scheduled" /\ nKeys = 2
    /\ hist.imm /\ hist.outcome = "failed"
    /\ Len(attemptLog) = 3
    /\ attemptLog[1].key = 1 /\ ~attemptLog[1].ok
    /\ attemptLog[2].key = 0 /\ attemptLog[2].ok /\ attemptLog[2].lang = "zh"
    /\ attemptLog[3].key = 0 /\ attemptLog[3].lang = "en"

=============================================================================
